---- MODULE Spec2Model ----
(***************************************************************************)
(* The filesystem facade of the XRootD client (xrootd/client/filesystem.go)*)
(* as a state machine.  Each caller invokes one facade method at a time;   *)
(* a method builds one request, blocks in the transport primitive (Send or *)
(* call) and maps the transport's outcome to its return values.  The       *)
(* transport and the remote namespace are the facade's collaborators and   *)
(* are modelled from their documented contract.                            *)
(***************************************************************************)
EXTENDS Integers, Sequences, FiniteSets, TLC

\* ------------------------------------------------------------------ domains

Callers == {"c1", "c2"}

\* The facade values handed out by Client.FS(); both wrap the same client.
FSs == {"fs1", "fs2"}

TheClient == "cli"

Root == << >>

Paths == { <<"a">>, <<"a", "b">>, <<"a", "b", "c">> }

\* xrdfs.OpenMode and xrdfs.OpenOptions are bit sets: a value is the set of
\* the bits that are set, the zero value is the empty set.
OpenModes == { {}, {"OwnerRead", "OwnerWrite"} }

OpenOptionsSet == { {}, {"New"} }

Sizes == {0, 8}

Compressions == {"raw", "zlib"}

\* The server stops handing out file handles after this many.
MaxHandles == 2

NilErr == "nil"

ErrCanceled == "context canceled"

ErrConnLost == "connection lost"

ProtocolErrors == {"NotFound", "Exists", "ParentMissing", "Conflict",
                   "NotEmpty", "IsDirectory", "NoHandles"}

TransportErrors == {ErrConnLost}

\* ----------------------------------------------------------------- entities

EntryStat(p, isDir) == [kind |-> "EntryStat", name |-> p, isDir |-> isDir]

ZeroEntryStat == [kind |-> "EntryStat", name |-> Root, isDir |-> FALSE]

VirtualFSStat(n, f) == [kind |-> "VirtualFSStat", nodesRW |-> n, freeRW |-> f]

ZeroVirtualFSStat == [kind |-> "VirtualFSStat", nodesRW |-> 0, freeRW |-> 0]

Entries(s) == [kind |-> "Entries", entries |-> s]

NilEntries == Entries(<< >>)

NilFile == [kind |-> "NilFile"]

Void == [kind |-> "Void"]

\* The payload of an open response: handle, compression and stat snapshot.
OpenPayload(h, comp, st) ==
    [kind |-> "Open", FileHandle |-> h, Compression |-> comp, Stat |-> st]

ZeroOpenPayload == OpenPayload(0, "raw", ZeroEntryStat)

Ack == [kind |-> "Ack"]

\* file{fs, handle, compression, info}
File(fs, h, comp, st) ==
    [kind |-> "File", fs |-> fs, handle |-> h, compression |-> comp, info |-> st]

\* --------------------------------------------------------- request builders

\* dirlist.NewRequest and open.NewRequest, the constructors of the protocol
\* packages: they store their arguments in the request.
NewDirlistRequest(path) == [type |-> "dirlist", path |-> path]

NewOpenRequest(path, mode, options) ==
    [type |-> "open", path |-> path, mode |-> mode, options |-> options]

DirlistRequest(path) == NewDirlistRequest(path)

\* An Open that adds an option bit of its own.
OpenRequestForceMkPath(path, mode, options) ==
    NewOpenRequest(path, mode, options \cup {"MkPath"})

OpenRequest(path, mode, options) == NewOpenRequest(path, mode, options)

RmRequest(path) == [type |-> "rm", path |-> path]

\* A request that forgets the size.
TruncateRequestNoSize(path, size) == [type |-> "truncate", path |-> path, size |-> 0]

TruncateRequest(path, size) == [type |-> "truncate", path |-> path, size |-> size]

StatRequest(path) == [type |-> "stat", path |-> path, options |-> {}]

OptionsVFS == {"VFS"}

\* A virtual stat that forgets the VFS bit.
VirtualStatRequestNoVFS(path) == [type |-> "stat", path |-> path, options |-> {}]

VirtualStatRequest(path) == [type |-> "stat", path |-> path, options |-> OptionsVFS]

\* A Mkdir that sets the make-path bit.
MkdirRequestMakePath(path, perm) ==
    [type |-> "mkdir", path |-> path, mode |-> perm, options |-> {"MakePath"}]

MkdirRequest(path, perm) ==
    [type |-> "mkdir", path |-> path, mode |-> perm, options |-> {}]

OptionsMakePath == {"MakePath"}

\* A MkdirAll that forgets the make-path bit.
MkdirAllRequestPlain(path, perm) ==
    [type |-> "mkdir", path |-> path, mode |-> perm, options |-> {}]

MkdirAllRequest(path, perm) ==
    [type |-> "mkdir", path |-> path, mode |-> perm, options |-> OptionsMakePath]

RmdirRequest(path) == [type |-> "rmdir", path |-> path]

MvRequest(oldpath, newpath) == [type |-> "mv", oldpath |-> oldpath, newpath |-> newpath]

ChmodRequest(path, perm) == [type |-> "chmod", path |-> path, mode |-> perm]

\* The arguments of one invocation of a facade method.
Invocation(op, fs, path, mode, options, size, newpath) ==
    [op |-> op, fs |-> fs, path |-> path, mode |-> mode, options |-> options,
     size |-> size, newpath |-> newpath]

NoCall == Invocation("none", "fs1", Root, {}, {}, 0, Root)

\* The request a method hands to the transport.
RequestOf(cl) ==
    CASE cl.op = "Dirlist"     -> DirlistRequest(cl.path)
      [] cl.op = "Open"        -> OpenRequest(cl.path, cl.mode, cl.options)
      [] cl.op = "RemoveFile"  -> RmRequest(cl.path)
      [] cl.op = "Truncate"    -> TruncateRequest(cl.path, cl.size)
      [] cl.op = "Stat"        -> StatRequest(cl.path)
      [] cl.op = "VirtualStat" -> VirtualStatRequest(cl.path)
      [] cl.op = "Mkdir"       -> MkdirRequest(cl.path, cl.mode)
      [] cl.op = "MkdirAll"    -> MkdirAllRequest(cl.path, cl.mode)
      [] cl.op = "RemoveDir"   -> RmdirRequest(cl.path)
      [] cl.op = "Rename"      -> MvRequest(cl.path, cl.newpath)
      [] cl.op = "Chmod"       -> ChmodRequest(cl.path, cl.mode)

\* The response value a method declares and passes to Send; the methods that
\* use call pass none.
SinkType(op) ==
    CASE op = "Dirlist"     -> "dirlist.Response"
      [] op = "Open"        -> "open.Response"
      [] op = "Stat"        -> "stat.DefaultResponse"
      [] op = "VirtualStat" -> "stat.VirtualFSResponse"
      [] OTHER              -> "none"

ZeroBody(type) ==
    CASE type = "dirlist.Response"       -> NilEntries
      [] type = "open.Response"          -> ZeroOpenPayload
      [] type = "stat.DefaultResponse"   -> ZeroEntryStat
      [] type = "stat.VirtualFSResponse" -> ZeroVirtualFSStat
      [] OTHER                           -> Ack

\* ------------------------------------------------- the remote namespace
\* The remote side, from the protocol's documented behaviour: a tree of
\* entries, each absent ("none"), a directory ("dir") or a file ("file").

Parent(p) == SubSeq(p, 1, Len(p) - 1)

Prefixes(p) == { SubSeq(p, 1, k) : k \in 1..Len(p) }

ProperPrefixes(p) == Prefixes(p) \ {p}

KindAt(n, p) == IF p = Root THEN "dir" ELSE n[p]

ChildrenOf(n, p) == { q \in Paths : Parent(q) = p /\ n[q] # "none" }

\* The children of p in listing order (the tree has at most one child per
\* listed directory, so the order is that of the single chain).
RECURSIVE SeqOf(_)
SeqOf(S) ==
    IF S = {} THEN << >>
    ELSE LET q == CHOOSE x \in S : \A y \in S : Len(x) <= Len(y)
         IN  <<q>> \o SeqOf(S \ {q})

StatOf(n, p) == EntryStat(p, KindAt(n, p) = "dir")

Answer(n, h, err, payload) == [ns |-> n, nh |-> h, err |-> err, payload |-> payload]

Refuse(n, h, err) == Answer(n, h, err, Ack)

ExecMkdir(n, h, r) ==
    IF "MakePath" \in r.options
    THEN IF \E q \in Prefixes(r.path) : n[q] = "file"
         THEN Refuse(n, h, "Conflict")
         ELSE Answer([q \in Paths |-> IF q \in Prefixes(r.path) THEN "dir" ELSE n[q]],
                     h, NilErr, Ack)
    ELSE IF KindAt(n, Parent(r.path)) # "dir"
         THEN Refuse(n, h, "ParentMissing")
         ELSE IF n[r.path] # "none"
              THEN Refuse(n, h, "Exists")
              ELSE Answer([n EXCEPT ![r.path] = "dir"], h, NilErr, Ack)

ExecStat(n, h, r) ==
    IF "VFS" \in r.options
    THEN Answer(n, h, NilErr,
                VirtualFSStat(1, Cardinality({q \in Paths : n[q] = "none"})))
    ELSE IF n[r.path] = "none"
         THEN Refuse(n, h, "NotFound")
         ELSE Answer(n, h, NilErr, StatOf(n, r.path))

ExecDirlist(n, h, r) ==
    IF n[r.path] # "dir"
    THEN Refuse(n, h, "NotFound")
    ELSE Answer(n, h, NilErr,
                Entries([i \in 1..Cardinality(ChildrenOf(n, r.path)) |->
                            StatOf(n, SeqOf(ChildrenOf(n, r.path))[i])]))

ExecOpen(n, h, r, comp) ==
    IF n[r.path] = "dir" THEN Refuse(n, h, "IsDirectory")
    ELSE IF n[r.path] = "none"
              /\ ~("New" \in r.options /\ KindAt(n, Parent(r.path)) = "dir")
         THEN Refuse(n, h, "NotFound")
         ELSE IF h >= MaxHandles
              THEN Refuse(n, h, "NoHandles")
              ELSE Answer([n EXCEPT ![r.path] = "file"], h + 1, NilErr,
                          OpenPayload(h + 1, comp, EntryStat(r.path, FALSE)))

ExecRm(n, h, r) ==
    IF n[r.path] = "file"
    THEN Answer([n EXCEPT ![r.path] = "none"], h, NilErr, Ack)
    ELSE Refuse(n, h, "NotFound")

ExecRmdir(n, h, r) ==
    IF n[r.path] # "dir" THEN Refuse(n, h, "NotFound")
    ELSE IF ChildrenOf(n, r.path) # {} THEN Refuse(n, h, "NotEmpty")
         ELSE Answer([n EXCEPT ![r.path] = "none"], h, NilErr, Ack)

\* A rename moves one entry; the tree is too small to hold a moved subtree,
\* so a non-empty directory is refused.
ExecMv(n, h, r) ==
    IF n[r.oldpath] = "none" THEN Refuse(n, h, "NotFound")
    ELSE IF \/ n[r.newpath] # "none"
            \/ KindAt(n, Parent(r.newpath)) # "dir"
            \/ r.oldpath \in Prefixes(r.newpath)
         THEN Refuse(n, h, "Conflict")
         ELSE IF ChildrenOf(n, r.oldpath) # {} THEN Refuse(n, h, "NotEmpty")
              ELSE Answer([n EXCEPT ![r.oldpath] = "none", ![r.newpath] = n[r.oldpath]],
                          h, NilErr, Ack)

ExecTruncate(n, h, r) ==
    IF n[r.path] = "file" THEN Answer(n, h, NilErr, Ack) ELSE Refuse(n, h, "NotFound")

ExecChmod(n, h, r) ==
    IF n[r.path] # "none" THEN Answer(n, h, NilErr, Ack) ELSE Refuse(n, h, "NotFound")

\* What the remote side does with one request, and what it answers.
Exec(n, h, r, comp) ==
    CASE r.type = "mkdir"    -> ExecMkdir(n, h, r)
      [] r.type = "stat"     -> ExecStat(n, h, r)
      [] r.type = "dirlist"  -> ExecDirlist(n, h, r)
      [] r.type = "open"     -> ExecOpen(n, h, r, comp)
      [] r.type = "rm"       -> ExecRm(n, h, r)
      [] r.type = "rmdir"    -> ExecRmdir(n, h, r)
      [] r.type = "mv"       -> ExecMv(n, h, r)
      [] r.type = "truncate" -> ExecTruncate(n, h, r)
      [] r.type = "chmod"    -> ExecChmod(n, h, r)

\* ------------------------------------------------------ the facade's returns

Result(entity, err) == [entity |-> entity, err |-> err]

\* A Dirlist that drops the error.
DirlistReturnSwallow(resp, err) ==
    IF err # NilErr THEN Result(NilEntries, NilErr)
    ELSE Result(resp["dirlist.Response"], NilErr)

DirlistReturn(resp, err) ==
    IF err # NilErr THEN Result(NilEntries, err)
    ELSE Result(resp["dirlist.Response"], err)

OpenReturn(fs, resp, err) ==
    IF err # NilErr THEN Result(NilFile, err)
    ELSE Result(File(fs, resp["open.Response"].FileHandle,
                     resp["open.Response"].Compression,
                     resp["open.Response"].Stat), NilErr)

\* A Stat that returns the response value whatever the error.
StatReturnPartial(resp, err) == Result(resp["stat.DefaultResponse"], err)

StatReturn(resp, err) ==
    IF err # NilErr THEN Result(ZeroEntryStat, err)
    ELSE Result(resp["stat.DefaultResponse"], NilErr)

VirtualStatReturn(resp, err) ==
    IF err # NilErr THEN Result(ZeroVirtualFSStat, err)
    ELSE Result(resp["stat.VirtualFSResponse"], NilErr)

\* _, err := fs.c.call(ctx, req); return err
CallReturn(err) == Result(Void, err)

ReturnOf(cl, resp, err) ==
    CASE cl.op = "Dirlist"     -> DirlistReturn(resp, err)
      [] cl.op = "Open"        -> OpenReturn(cl.fs, resp, err)
      [] cl.op = "Stat"        -> StatReturn(resp, err)
      [] cl.op = "VirtualStat" -> VirtualStatReturn(resp, err)
      [] OTHER                 -> CallReturn(err)

\* A method that passes a context of its own making.
SendCtxBackground(c) == "background"

\* The context a method passes on to the transport: its own ctx argument.
SendCtx(c) == c

\* One response value shared by all invocations.
SinkShared(c) == "c1"

\* The response value of an invocation is a local variable of that invocation.
SinkOf(c) == c

\* -------------------------------------------------------------------- state

VARIABLES
    active,   \* the callers that take part in this run
    fsys,     \* the facade values: fsys[f].c is the client f wraps
    pc,       \* per caller: "idle", "wait" (blocked in Send/call), "reply", "done"
    call,     \* per caller: the invocation in progress (or the last one)
    ctxDone,  \* per caller: the invocation's context has been canceled
    sent,     \* per caller: what the invocation handed to the transport, in order
    sink,     \* the response values: sink[s][t] is the value of type t in slot s
    ret,      \* per caller: what the transport primitive returned
    res,      \* per caller: what the facade method returned
    ns,       \* the remote namespace
    nh,       \* the number of file handles the remote side has allocated
    answer,   \* per caller: the payload of the remote side's answer to its request
    pred      \* per caller: what is remembered about its invocation (NoPre)

vars == <<active, fsys, pc, call, ctxDone, sent, sink, ret, res, ns, nh, answer, pred>>

SinkTypes == {"dirlist.Response", "open.Response", "stat.DefaultResponse",
              "stat.VirtualFSResponse"}

ZeroSinks == [t \in SinkTypes |-> ZeroBody(t)]

\* What a failed decode may leave behind in a response value.
PartialBody(type) ==
    CASE type = "dirlist.Response"       -> Entries(<<EntryStat(<<"a">>, TRUE)>>)
      [] type = "open.Response"          -> OpenPayload(1, "zlib", ZeroEntryStat)
      [] type = "stat.DefaultResponse"   -> EntryStat(<<"a">>, TRUE)
      [] type = "stat.VirtualFSResponse" -> VirtualFSStat(1, 0)

KindOfSink(type) ==
    CASE type = "dirlist.Response"       -> "Entries"
      [] type = "open.Response"          -> "Open"
      [] type = "stat.DefaultResponse"   -> "EntryStat"
      [] type = "stat.VirtualFSResponse" -> "VirtualFSStat"
      [] OTHER                           -> "Ack"

ErrDecode == "unmarshal"

\* What a primitive returned: the error, and how it came about ("served": the
\* remote side's answer arrived; "failed": the connection failed; "canceled").
Returned(err, via) == [err |-> err, via |-> via]

NoReturn == Returned("unset", "none")

NoResult == Result(Void, "unset")

\* No answer: the request was not carried out, or was refused.
NoAnswer == [kind |-> "None"]

\* What is remembered about an invocation for the properties that speak of
\* two calls in a row.  rep: the caller's previous invocation was the same
\* directory-creating method with the same arguments and returned nil ("ok")
\* or was refused by the remote side ("refused"); "no" otherwise, and always
\* "no" in a run with several callers, where another caller's request may
\* have come between.  missing: when the request was executed, a proper
\* ancestor of the path was absent and no component of it was a file.
NoPre == [rep |-> "no", missing |-> FALSE]

RepOf(c, cl) ==
    IF /\ active = {c}
       /\ pc[c] = "done"
       /\ cl.op \in {"Mkdir", "MkdirAll"}
       /\ call[c].op = cl.op /\ call[c].path = cl.path /\ call[c].mode = cl.mode
       /\ ret[c].via = "served"
    THEN (IF res[c].err = NilErr THEN "ok" ELSE "refused")
    ELSE "no"

MissingAncestor(cl, n) ==
    /\ cl.op \in {"Mkdir", "MkdirAll"}
    /\ \E q \in ProperPrefixes(cl.path) : n[q] = "none"
    /\ \A q \in Prefixes(cl.path) : n[q] # "file"

\* The inputs of a run.  A run with a single caller draws its arguments from
\* the full sets and uses either facade value; a run with concurrent callers
\* draws them from one path and one mode and shares one facade value, which
\* keeps the interleavings of two invocations finite and small.
ArgPaths == IF Cardinality(active) = 1 THEN Paths ELSE { <<"a">> }

ArgModes == IF Cardinality(active) = 1 THEN OpenModes ELSE { {"OwnerRead", "OwnerWrite"} }

ArgSizes == IF Cardinality(active) = 1 THEN Sizes ELSE {8}

ArgFSs(c) == IF Cardinality(active) = 1 THEN FSs ELSE {"fs1"}

InitWith(A) ==
    /\ active = A
    /\ fsys = [f \in FSs |-> [c |-> TheClient]]
    /\ pc = [c \in Callers |-> "idle"]
    /\ call = [c \in Callers |-> NoCall]
    /\ ctxDone = [c \in Callers |-> FALSE]
    /\ sent = [c \in Callers |-> << >>]
    /\ sink = [s \in Callers |-> ZeroSinks]
    /\ ret = [c \in Callers |-> NoReturn]
    /\ res = [c \in Callers |-> NoResult]
    /\ ns = [p \in Paths |-> "none"]
    /\ nh = 0
    /\ answer = [c \in Callers |-> NoAnswer]
    /\ pred = [c \in Callers |-> NoPre]

\* One caller, invocations one after the other.
Init == InitWith({"c1"})

\* Two callers, invocations interleaved.
InitConc == InitWith(Callers)

\* One hand-over to a transport primitive: the context, the request, the
\* type of the response value passed along (Send) or "none" (call), the slot
\* of that value, and the client the facade value wraps.
Message(c, cl) ==
    [ctx |-> SendCtx(c), req |-> RequestOf(cl), sink |-> SinkType(cl.op),
     slot |-> SinkOf(c), client |-> fsys[cl.fs].c]

\* A caller enters a facade method: the method declares its response value
\* (zero), builds its request and blocks in the transport primitive.
Invoke(c, cl) ==
    /\ pc[c] \in {"idle", "done"}
    /\ pc' = [pc EXCEPT ![c] = "wait"]
    /\ call' = [call EXCEPT ![c] = cl]
    /\ ctxDone' = [ctxDone EXCEPT ![c] = FALSE]
    /\ sent' = [sent EXCEPT ![c] = <<Message(c, cl)>>]
    /\ sink' = [sink EXCEPT ![SinkOf(c)] = ZeroSinks]
    /\ ret' = [ret EXCEPT ![c] = NoReturn]
    /\ res' = [res EXCEPT ![c] = NoResult]
    /\ answer' = [answer EXCEPT ![c] = NoAnswer]
    /\ pred' = [pred EXCEPT ![c] = [rep |-> RepOf(c, cl), missing |-> FALSE]]
    /\ UNCHANGED <<active, fsys, ns, nh>>

Dirlist(c) ==
    \E f \in ArgFSs(c), p \in ArgPaths : Invoke(c, Invocation("Dirlist", f, p, {}, {}, 0, Root))

Open(c) ==
    \E f \in ArgFSs(c), p \in ArgPaths, m \in ArgModes, o \in OpenOptionsSet :
        Invoke(c, Invocation("Open", f, p, m, o, 0, Root))

RemoveFile(c) ==
    \E f \in ArgFSs(c), p \in ArgPaths : Invoke(c, Invocation("RemoveFile", f, p, {}, {}, 0, Root))

Truncate(c) ==
    \E f \in ArgFSs(c), p \in ArgPaths, z \in ArgSizes :
        Invoke(c, Invocation("Truncate", f, p, {}, {}, z, Root))

Stat(c) ==
    \E f \in ArgFSs(c), p \in ArgPaths : Invoke(c, Invocation("Stat", f, p, {}, {}, 0, Root))

VirtualStat(c) ==
    \E f \in ArgFSs(c), p \in ArgPaths : Invoke(c, Invocation("VirtualStat", f, p, {}, {}, 0, Root))

Mkdir(c) ==
    \E f \in ArgFSs(c), p \in ArgPaths, m \in ArgModes :
        Invoke(c, Invocation("Mkdir", f, p, m, {}, 0, Root))

MkdirAll(c) ==
    \E f \in ArgFSs(c), p \in ArgPaths, m \in ArgModes :
        Invoke(c, Invocation("MkdirAll", f, p, m, {}, 0, Root))

RemoveDir(c) ==
    \E f \in ArgFSs(c), p \in ArgPaths : Invoke(c, Invocation("RemoveDir", f, p, {}, {}, 0, Root))

Rename(c) ==
    \E f \in ArgFSs(c), p \in ArgPaths, q \in ArgPaths :
        Invoke(c, Invocation("Rename", f, p, {}, {}, 0, q))

Chmod(c) ==
    \E f \in ArgFSs(c), p \in ArgPaths, m \in ArgModes :
        Invoke(c, Invocation("Chmod", f, p, m, {}, 0, Root))

\* ------------------------------------------------------------ the transport
\* Client.Send and Client.call, from their contract: one request goes out,
\* the answer (or an error) comes back to the invocation that sent it; Send
\* decodes a successful answer into the response value it was given.

Pending(c) == sent[c][Len(sent[c])]

\* The remote side executes c's pending request.
Execute(c, a) ==
    /\ ns' = a.ns
    /\ nh' = a.nh
    /\ pred' = [pred EXCEPT ![c].missing = MissingAncestor(call[c], ns)]

\* The answer arrives and the primitive returns it.
Serve(c) ==
    /\ pc[c] = "wait"
    /\ LET m == Pending(c) IN
       \E comp \in (IF m.req.type = "open" THEN Compressions ELSE {"raw"}) :
         LET a == Exec(ns, nh, m.req, comp) IN
           /\ Execute(c, a)
           /\ answer' = [answer EXCEPT ![c] = IF a.err = NilErr THEN a.payload
                                                ELSE NoAnswer]
           /\ IF a.err # NilErr
              THEN /\ ret' = [ret EXCEPT ![c] = Returned(a.err, "served")]
                   /\ sink' = sink
              ELSE IF m.sink = "none"
              THEN /\ ret' = [ret EXCEPT ![c] = Returned(NilErr, "served")]
                   /\ sink' = sink
              ELSE IF a.payload.kind = KindOfSink(m.sink)
              THEN /\ ret' = [ret EXCEPT ![c] = Returned(NilErr, "served")]
                   /\ sink' = [sink EXCEPT ![m.slot][m.sink] = a.payload]
              ELSE /\ ret' = [ret EXCEPT ![c] = Returned(ErrDecode, "served")]
                   /\ sink' = sink
    /\ pc' = [pc EXCEPT ![c] = "reply"]
    /\ UNCHANGED <<active, fsys, call, ctxDone, sent, res>>

\* The primitive returns error e and delivers no answer.  The response value
\* may be partly written already; when executed, the request has reached the
\* remote side and been carried out all the same.
Abort(c, e, via, executed) ==
    LET m == Pending(c)
        a == Exec(ns, nh, m.req, "raw")
    IN  \E partial \in BOOLEAN :
        /\ IF executed
           THEN /\ Execute(c, a)
                /\ answer' = [answer EXCEPT ![c] = IF a.err = NilErr THEN a.payload
                                                     ELSE NoAnswer]
           ELSE UNCHANGED <<ns, nh, pred, answer>>
        /\ sink' = IF partial /\ m.sink # "none"
                   THEN [sink EXCEPT ![m.slot][m.sink] = PartialBody(m.sink)]
                   ELSE sink
        /\ ret' = [ret EXCEPT ![c] = Returned(e, via)]
        /\ pc' = [pc EXCEPT ![c] = "reply"]
        /\ UNCHANGED <<active, fsys, call, sent, res>>

\* The connection fails while the invocation waits, before the request is
\* carried out.
Fail(c) ==
    /\ pc[c] = "wait"
    /\ \E e \in TransportErrors : Abort(c, e, "failed", FALSE)
    /\ UNCHANGED ctxDone

\* The caller's context is canceled while the invocation waits; a primitive
\* that was given that context returns the cancellation at once, whether or
\* not the request has been carried out by then.
Cancel(c) ==
    /\ pc[c] = "wait"
    /\ ~ctxDone[c]
    /\ ctxDone' = [ctxDone EXCEPT ![c] = TRUE]
    /\ IF Pending(c).ctx = c
       THEN \E executed \in BOOLEAN : Abort(c, ErrCanceled, "canceled", executed)
       ELSE UNCHANGED <<active, fsys, pc, call, sent, sink, ret, res, ns, nh, answer, pred>>

\* The facade method returns to its caller.
Return(c) ==
    /\ pc[c] = "reply"
    /\ res' = [res EXCEPT ![c] = ReturnOf(call[c], sink[SinkOf(c)], ret[c].err)]
    /\ pc' = [pc EXCEPT ![c] = "done"]
    /\ UNCHANGED <<active, fsys, call, ctxDone, sent, sink, ret, ns, nh, answer, pred>>

Next ==
    \E c \in active :
        \/ Dirlist(c)
        \/ Open(c)
        \/ RemoveFile(c)
        \/ Truncate(c)
        \/ Stat(c)
        \/ VirtualStat(c)
        \/ Mkdir(c)
        \/ MkdirAll(c)
        \/ RemoveDir(c)
        \/ Rename(c)
        \/ Chmod(c)
        \/ Serve(c)
        \/ Fail(c)
        \/ Cancel(c)
        \/ Return(c)

Spec == Init /\ [][Next]_vars

SpecConc == InitConc /\ [][Next]_vars

\* The namespace stays a tree: whatever exists lies in a directory.
NamespaceIsTree ==
    \A p \in Paths : ns[p] # "none" => KindAt(ns, Parent(p)) = "dir"

\* -------------------------------------------------------------- properties

Started(c) == pc[c] \in {"wait", "reply", "done"}

Voids == {"RemoveFile", "Truncate", "Mkdir", "MkdirAll", "RemoveDir", "Rename", "Chmod"}

\* What a method returns beside a non-nil error.
ZeroEntity(op) ==
    CASE op = "Dirlist"     -> NilEntries
      [] op = "Open"        -> NilFile
      [] op = "Stat"        -> ZeroEntryStat
      [] op = "VirtualStat" -> ZeroVirtualFSStat
      [] OTHER              -> Void

\* The entity that the payload of a successful answer stands for.
EntityOf(cl, payload) ==
    CASE cl.op = "Open" -> File(cl.fs, payload.FileHandle, payload.Compression, payload.Stat)
      [] cl.op \in {"Dirlist", "Stat", "VirtualStat"} -> payload
      [] OTHER -> Void

\* C1: MkdirAll hands the transport exactly one request, and it is the request
\* Mkdir sends for the same path and perm with the make-path bit added; the
\* request of Mkdir carries the path and perm and no option bit.
C1_MkdirAllOneRequest ==
    \A c \in Callers :
        Started(c) /\ call[c].op \in {"Mkdir", "MkdirAll"} =>
            /\ Len(sent[c]) = 1
            /\ LET r == sent[c][1].req
                   plain == [type |-> "mkdir", path |-> call[c].path,
                             mode |-> call[c].mode, options |-> {}]
               IN  /\ call[c].op = "Mkdir" => r = plain
                   /\ call[c].op = "MkdirAll" =>
                        /\ r = [plain EXCEPT !.options = {"MakePath"}]
                        /\ r = [MkdirRequest(call[c].path, call[c].mode)
                                    EXCEPT !.options = @ \cup OptionsMakePath]

C1_Witness ==
    \E c \in Callers :
        /\ pc[c] = "done" /\ call[c].op = "MkdirAll"
        /\ call[c].path = <<"a", "b", "c">> /\ call[c].mode # {}
        /\ res[c].err = NilErr

\* C2: a returned call carries either a nil error and the entity decoded from
\* the successful answer, or a non-nil error and the zero entity of its
\* method, whatever the transport left in the response value.
C2_NoPartialSuccess ==
    \A c \in Callers :
        pc[c] = "done" =>
            \/ res[c].err = NilErr /\ ret[c].err = NilErr
                 /\ res[c].entity = EntityOf(call[c], answer[c])
            \/ res[c].err # NilErr /\ res[c].entity = ZeroEntity(call[c].op)

C2_Witness ==
    \E c \in Callers :
        /\ pc[c] = "done" /\ call[c].op = "Stat"
        /\ res[c].err # NilErr
        /\ sink[c]["stat.DefaultResponse"] # ZeroEntryStat

\* C3: the error a call returns is the error the transport primitive returned,
\* nil included.
C3_ErrorUnchanged ==
    \A c \in Callers : pc[c] = "done" => res[c].err = ret[c].err

C3_Witness ==
    \E c \in Callers :
        /\ pc[c] = "done" /\ call[c].op = "Dirlist"
        /\ ret[c].err \in ProtocolErrors /\ res[c].err = ret[c].err

\* C4: from the moment it is sent to after the call has returned, an invocation
\* has handed the transport exactly one request, which carries the caller's
\* arguments; the methods without a result return only the error.
C4_OneRequestPerCall ==
    \A c \in Callers :
        Started(c) =>
            /\ Len(sent[c]) = 1
            /\ LET r == sent[c][1].req
                   cl == call[c]
               IN  CASE cl.op = "RemoveFile" -> r = [type |-> "rm", path |-> cl.path]
                     [] cl.op = "RemoveDir"  -> r = [type |-> "rmdir", path |-> cl.path]
                     [] cl.op = "Truncate"   ->
                            r = [type |-> "truncate", path |-> cl.path, size |-> cl.size]
                     [] cl.op = "Rename"     ->
                            r = [type |-> "mv", oldpath |-> cl.path, newpath |-> cl.newpath]
                     [] cl.op = "Chmod"      ->
                            r = [type |-> "chmod", path |-> cl.path, mode |-> cl.mode]
                     [] cl.op = "Dirlist"    -> r.type = "dirlist" /\ r.path = cl.path
                     [] cl.op = "Open"       -> r.type = "open" /\ r.path = cl.path
                     [] cl.op \in {"Stat", "VirtualStat"} ->
                            r.type = "stat" /\ r.path = cl.path
                     [] cl.op \in {"Mkdir", "MkdirAll"} ->
                            r.type = "mkdir" /\ r.path = cl.path /\ r.mode = cl.mode
            /\ pc[c] = "done" /\ call[c].op \in Voids => res[c].entity = Void

C4_Witness ==
    \E c \in Callers :
        /\ pc[c] = "done" /\ call[c].op = "Truncate" /\ call[c].size # 0
        /\ res[c].err # NilErr /\ Len(sent[c]) = 1

\* C5: a Stat and a VirtualStat invocation send requests of the one stat type
\* for their path that differ in the VFS bit alone (clear for Stat, set for
\* VirtualStat); the answer to a request without the bit is an entry stat and
\* is decoded only into the default response and returned as an EntryStat, the
\* answer to a request with the bit is a virtual stat and is decoded only into
\* the virtual response and returned as a VirtualFSStat, however the two
\* invocations interleave.
C5_StatVariantsApart ==
    \A c \in Callers :
        Started(c) /\ call[c].op \in {"Stat", "VirtualStat"} =>
            LET m == sent[c][1]
                vfs == call[c].op = "VirtualStat"
            IN  /\ m.req = [type |-> "stat", path |-> call[c].path,
                            options |-> IF vfs THEN {"VFS"} ELSE {}]
                /\ m.req = [StatRequest(call[c].path)
                                EXCEPT !.options = IF vfs THEN OptionsVFS ELSE {}]
                /\ m.sink = (IF vfs THEN "stat.VirtualFSResponse"
                             ELSE "stat.DefaultResponse")
                /\ answer[c] # NoAnswer =>
                     answer[c].kind = (IF vfs THEN "VirtualFSStat" ELSE "EntryStat")
                /\ sink[c][IF vfs THEN "stat.DefaultResponse"
                           ELSE "stat.VirtualFSResponse"]
                     = (IF vfs THEN ZeroEntryStat ELSE ZeroVirtualFSStat)
                /\ pc[c] = "done" =>
                     /\ res[c].entity.kind = (IF vfs THEN "VirtualFSStat" ELSE "EntryStat")
                     /\ res[c].err = NilErr => res[c].entity = answer[c]

C5_Witness ==
    \E c, d \in Callers :
        /\ c # d
        /\ pc[c] = "done" /\ call[c].op = "Stat" /\ res[c].err = NilErr
        /\ pc[d] = "done" /\ call[d].op = "VirtualStat" /\ res[d].err = NilErr
        /\ call[c].path = call[d].path
        /\ res[c].entity.name = call[c].path
        /\ res[d].entity.nodesRW > 0

C7_MkdirAllMaterializes ==
    [][\A c \in Callers :
          pc[c] = "wait" /\ pc'[c] = "reply" /\ ret'[c].via = "served"
              /\ pred'[c].missing =>
            /\ call[c].op = "MkdirAll" =>
                 /\ ret'[c].err = NilErr
                 /\ \A q \in Prefixes(call[c].path) :
                      LET a == Exec(ns', nh', StatRequest(q), "raw")
                      IN  /\ a.err = NilErr
                          /\ StatReturn([ZeroSinks EXCEPT !["stat.DefaultResponse"] = a.payload],
                                        a.err).entity = EntryStat(q, TRUE)
            /\ call[c].op = "Mkdir" =>
                 /\ ret'[c].err \in ProtocolErrors
                 /\ ns' = ns]_vars

C7_Witness ==
    \E c \in Callers :
        /\ pc[c] = "done" /\ call[c].op = "MkdirAll" /\ ret[c].via = "served"
        /\ call[c].path = <<"a", "b", "c">> /\ pred[c].missing
        /\ res[c].err = NilErr
        /\ \A q \in Paths : ns[q] = "dir"

\* C8: a call whose context was canceled while it waited for the answer
\* returns the cancellation error and the zero entity of its method, and has
\* handed the transport nothing but its one request.
C8_Cancellation ==
    \A c \in Callers :
        pc[c] = "done" /\ ctxDone[c] =>
            /\ res[c].err = ErrCanceled
            /\ res[c].entity = ZeroEntity(call[c].op)
            /\ Len(sent[c]) = 1

\* A canceled Open whose request was carried out all the same: the remote
\* side allocated a handle, the call returned no File.
C8_Witness ==
    \E c \in Callers :
        /\ pc[c] = "done" /\ ctxDone[c] /\ call[c].op = "Open"
        /\ res[c] = Result(NilFile, ErrCanceled)
        /\ answer[c] # NoAnswer /\ answer[c].FileHandle = nh
        /\ sink[c]["open.Response"] # ZeroOpenPayload
        /\ Len(sent[c]) = 1

\* C9: the request of Open carries the caller's path, mode and options as
\* given, and a successful Open returns the File made of the facade value the
\* call was made on and the handle, compression and stat of the answer.
C9_OpenVerbatim ==
    \A c \in Callers :
        Started(c) /\ call[c].op = "Open" =>
            /\ sent[c][1].req = [type |-> "open", path |-> call[c].path,
                                 mode |-> call[c].mode, options |-> call[c].options]
            /\ pc[c] = "done" /\ res[c].err = NilErr =>
                 /\ answer[c].kind = "Open"
                 /\ res[c].entity = [kind |-> "File", fs |-> call[c].fs,
                                     handle |-> answer[c].FileHandle,
                                     compression |-> answer[c].Compression,
                                     info |-> answer[c].Stat]

C9_Witness ==
    \E c \in Callers :
        /\ pc[c] = "done" /\ call[c].op = "Open" /\ res[c].err = NilErr
        /\ call[c].fs = "fs2" /\ call[c].options = {"New"} /\ call[c].mode # {}
        /\ res[c].entity.handle = 2 /\ res[c].entity.compression = "zlib"
        /\ res[c].entity.info = EntryStat(call[c].path, FALSE)

\* C10: whatever the interleaving of the callers' invocations, the facade
\* values keep the client they wrap, every invocation has handed that client
\* exactly one request of its own, and a call that returns nil returns the
\* entity of the answer to its own request.
C10_ConcurrentCalls ==
    /\ \A f \in FSs : fsys[f] = [c |-> TheClient]
    /\ \A c \in Callers :
         Started(c) =>
            /\ Len(sent[c]) = 1
            /\ sent[c][1].client = TheClient
            /\ sent[c][1].req = RequestOf(call[c])
            /\ pc[c] = "done" =>
                 /\ res[c].err = ret[c].err
                 /\ res[c].err = NilErr => res[c].entity = EntityOf(call[c], answer[c])

\* Two invocations overlap: d's request was answered first and d has not yet
\* returned when c, answered second, returns its own File.
C10_Witness ==
    \E c, d \in Callers :
        /\ c # d
        /\ pc[c] = "done" /\ call[c].op = "Open" /\ res[c].err = NilErr
        /\ pc[d] = "reply" /\ call[d].op = "Open" /\ ret[d].err = NilErr
        /\ answer[d].FileHandle = 1
        /\ res[c].entity.handle = 2

====
